---- MODULE Spec2Model ----
(***************************************************************************)
(* Model of training-images.py: for every timestamp of the track dataset   *)
(* a raster is fetched, one positive crop is cut around every track point  *)
(* and the same number of negative crops is searched at random positions   *)
(* that do not overlap anything already taken (occupancy array `free`).    *)
(*                                                                         *)
(* Arrays are modelled with Python's slicing rules (a negative slice bound *)
(* counts from the end; bounds are clamped to the axis length).  Rasters   *)
(* are scaled down; the raster shape, the track points and the random      *)
(* draws are inputs.                                                       *)
(***************************************************************************)
EXTENDS Integers, FiniteSets, Sequences, TLC

\* ---------------------------------------------------------------- bounds
MaxRows == 3        \* rasters have 1..MaxRows rows (len(y))
MaxCols == 6        \* rasters have 1..MaxCols columns (len(x))
MaxBuffer == 1      \* the crop half-width is 1..MaxBuffer pixels
MaxPoints == 2      \* a timestamp has 1..MaxPoints track points
NumDates == 2       \* number of distinct timestamps in the track dataset

\* maxAttemptCount = 5*len(indices)
AttemptFactor == 5
\* spacing of the scaled coordinate axes (planar units per pixel)
AxisStep == 2

VARIABLES
    date,           \* 1-based position of the outer loop in df['ISO_TIME'].unique()
    pc,             \* "fetch" | "positive" | "negative" | "done" | "error" | "finished"
    fault,          \* the exception that ended the timestamp, "none" if none
    buffer,         \* crop half-width in pixels
    shape,          \* ds.Rad.shape = <<rows, columns>>; <<0, 0>> when no raster is held
    nx, ny,         \* the two names unpacked from ds.Rad.shape
    free,           \* occupancy array of shape (ny, nx): the set of its cells holding 1
    indices,        \* len(indices): number of track points of the timestamp
    pointsDone,     \* number of track points handled by the positive loop
    negativeCount,  \* accepted negative samples
    attemptCount,   \* random draws made
    saved           \* crops crop_image persisted for this raster: [kind, yInd, xInd]

vars == <<date, pc, fault, buffer, shape, nx, ny, free, indices, pointsDone,
          negativeCount, attemptCount, saved>>

Min(a, b) == IF a < b THEN a ELSE b
Max(a, b) == IF a > b THEN a ELSE b

\* ------------------------------------------------------- array indexing
\* Python's resolution of one slice bound against an axis of length n.
SliceBound(i, n) == IF i < 0 THEN Max(i + n, 0) ELSE Min(i, n)

\* The indices a[lo:hi] selects on an axis of length n.
Slice(lo, hi, n) == SliceBound(lo, n)..(SliceBound(hi, n) - 1)

\* ds.Rad[yInd-buffer:yInd+buffer, xInd-buffer:xInd+buffer]: the cells of the crop.
CropCells(yInd, xInd) ==
    Slice(yInd - buffer, yInd + buffer, shape[1])
        \X Slice(xInd - buffer, xInd + buffer, shape[2])

\* free[yInd-buffer:yInd+buffer, xInd-buffer:xInd+buffer] on the (ny, nx) array.
MaskWindow(yInd, xInd) ==
    Slice(yInd - buffer, yInd + buffer, ny)
        \X Slice(xInd - buffer, xInd + buffer, nx)

\* np.ones((rows, cols)): every cell holds 1.
NewMask(rows, cols) == (0..(rows - 1)) \X (0..(cols - 1))

\* Mutant of Mark: the array is created anew and only the latest window is
\* marked.
MarkOnlyLatest(mask, yInd, xInd) ==
    ((0..(ny - 1)) \X (0..(nx - 1))) \ (Slice(yInd - buffer, yInd + buffer, ny)
                                           \X Slice(xInd - buffer, xInd + buffer, nx))

\* free[window] = 0
Mark(mask, yInd, xInd) == mask \ MaskWindow(yInd, xInd)

\* Mutant of IsFree: only the centre pixel of the window is tested.
IsFreeCentreOnly(mask, yInd, xInd) == <<yInd, xInd>> \in mask

\* (free[window] == 1).all()
IsFree(mask, yInd, xInd) == \A c \in MaskWindow(yInd, xInd) : c \in mask

\* crop_image: the crop is persisted unless one of its dimensions is 0.
CropSaved(kind, yInd, xInd) ==
    IF CropCells(yInd, xInd) # {}
    THEN {[kind |-> kind, yInd |-> yInd, xInd |-> xInd]}
    ELSE {}

\* ------------------------------------------------------ nearest pixel
\* Scaled coordinate axes: x grows with the column, y falls with the row.
XAxis(k) == AxisStep * k
YAxis(k) == AxisStep * (shape[1] - 1 - k)
Abs(v) == IF v < 0 THEN -v ELSE v

\* The scan of argmin over the array a (a function on 0..n-1) from index k
\* on: the best index so far is replaced only by a strictly smaller value.
RECURSIVE ArgMinScan(_, _, _)
ArgMinScan(a, k, best) ==
    IF k \notin DOMAIN a
    THEN best
    ELSE ArgMinScan(a, k + 1, IF a[k] < a[best] THEN k ELSE best)

\* Mutant of NanArgMin: the scan replaces the best index on an equal value
\* too, so the last minimum is returned.
RECURSIVE ArgMinScanLast(_, _, _)
ArgMinScanLast(a, k, best) ==
    IF k \notin DOMAIN a
    THEN best
    ELSE ArgMinScanLast(a, k + 1, IF a[k] <= a[best] THEN k ELSE best)

NanArgMinLast(a) == ArgMinScanLast(a, 1, 0)

\* np.nanargmin(a): the index of the minimum of a (no entry is NaN).
NanArgMin(a) == ArgMinScan(a, 1, 0)

\* xInd = np.nanargmin(abs(x-trackX)); yInd = np.nanargmin(abs(y-trackY))
LocateX(trackX) == NanArgMin([k \in 0..(shape[2] - 1) |-> Abs(XAxis(k) - trackX)])
LocateY(trackY) == NanArgMin([k \in 0..(shape[1] - 1) |-> Abs(YAxis(k) - trackY)])

\* planar coordinates a track point can project to
PlanarX == (-1)..(AxisStep * MaxCols)
PlanarY == (-1)..(AxisStep * MaxRows)

\* ------------------------------------------------------------ actions
Init ==
    /\ date = 1
    /\ pc = "fetch"
    /\ fault = "none"
    /\ buffer \in 1..MaxBuffer
    /\ shape = <<0, 0>>
    /\ nx = 0
    /\ ny = 0
    /\ free = {}
    /\ indices = 0
    /\ pointsDone = 0
    /\ negativeCount = 0
    /\ attemptCount = 0
    /\ saved = {}

\* Mutant of Fetch: the occupancy array is not created anew for the raster,
\* the one left by the previous iteration is used.
FetchReusesMask ==
    /\ pc = "fetch"
    /\ \E rows \in 1..MaxRows, cols \in 1..MaxCols, n \in 1..MaxPoints :
        /\ shape' = <<rows, cols>>
        /\ nx' = rows
        /\ ny' = cols
        /\ indices' = n
    /\ pc' = "positive"
    /\ UNCHANGED <<date, fault, buffer, free, pointsDone, negativeCount, attemptCount, saved>>

\* goes.download_data succeeds; nx, ny = ds.Rad.shape; free = np.ones((ny,nx));
\* the rows of df of this date are selected.
Fetch ==
    /\ pc = "fetch"
    /\ \E rows \in 1..MaxRows, cols \in 1..MaxCols, n \in 1..MaxPoints :
        /\ shape' = <<rows, cols>>
        /\ nx' = rows
        /\ ny' = cols
        /\ free' = NewMask(cols, rows)
        /\ indices' = n
    /\ pc' = "positive"
    /\ UNCHANGED <<date, fault, buffer, pointsDone, negativeCount, attemptCount, saved>>

\* goes.download_data raises: the bare except logs and the loop goes on.
FetchFail ==
    /\ pc = "fetch"
    /\ pc' = "error"
    /\ fault' = "RetrievalError"
    /\ UNCHANGED <<date, buffer, shape, nx, ny, free, indices, pointsDone,
                   negativeCount, attemptCount, saved>>

\* One iteration of `for i in indices` for a track point that projects to
\* (trackX, trackY): locate the pixel, crop, mark.
PositivePoint(trackX, trackY) ==
    /\ pc = "positive"
    /\ pointsDone < indices
    /\ LET xInd == LocateX(trackX)
           yInd == LocateY(trackY)
       IN  /\ saved' = saved \cup CropSaved("positive", yInd, xInd)
           /\ free' = Mark(free, yInd, xInd)
    /\ pointsDone' = pointsDone + 1
    /\ UNCHANGED <<date, pc, fault, buffer, shape, nx, ny, indices,
                   negativeCount, attemptCount>>

Positive == \E trackX \in PlanarX, trackY \in PlanarY : PositivePoint(trackX, trackY)

\* Mutant of PositiveSinkFail: the failure is caught inside the loop over the
\* track points, the sample is skipped and the loop goes on.
PositiveSinkFailSkipsSample ==
    /\ pc = "positive"
    /\ pointsDone < indices
    /\ \E trackX \in PlanarX, trackY \in PlanarY :
        CropCells(LocateY(trackY), LocateX(trackX)) # {}
    /\ pointsDone' = pointsDone + 1
    /\ fault' = "SinkError"
    /\ UNCHANGED <<date, pc, buffer, shape, nx, ny, free, indices,
                   negativeCount, attemptCount, saved>>

\* crop_image raises while persisting a positive crop (to_netcdf / savefig):
\* the bare except ends the timestamp; nothing is marked.
PositiveSinkFail ==
    /\ pc = "positive"
    /\ pointsDone < indices
    /\ \E trackX \in PlanarX, trackY \in PlanarY :
        CropCells(LocateY(trackY), LocateX(trackX)) # {}
    /\ pc' = "error"
    /\ fault' = "SinkError"
    /\ UNCHANGED <<date, buffer, shape, nx, ny, free, indices, pointsDone,
                   negativeCount, attemptCount, saved>>

\* Mutant of BeginNegative: the negative search starts although track points
\* are left.
BeginNegativeEarly ==
    /\ pc = "positive"
    /\ pointsDone <= indices
    /\ pc' = "negative"
    /\ negativeCount' = 0
    /\ attemptCount' = 0
    /\ UNCHANGED <<date, fault, buffer, shape, nx, ny, free, indices, pointsDone, saved>>

\* The positive loop is exhausted: negativeCount = 0, attemptCount = 0.
BeginNegative ==
    /\ pc = "positive"
    /\ pointsDone = indices
    /\ pc' = "negative"
    /\ negativeCount' = 0
    /\ attemptCount' = 0
    /\ UNCHANGED <<date, fault, buffer, shape, nx, ny, free, indices, pointsDone, saved>>

\* np.random.randint(low, high) needs low < high.
CanDraw == buffer < nx - buffer /\ buffer < ny - buffer

\* Mutant of NegativeDraw: the loop breaks as soon as attemptCount reaches
\* maxAttemptCount (>= instead of >).
NegativeDrawEarlyBreak(yInd, xInd) ==
    /\ pc = "negative"
    /\ negativeCount < indices
    /\ buffer < nx - buffer /\ buffer < ny - buffer
    /\ IF IsFree(free, yInd, xInd)
       THEN /\ saved' = saved \cup CropSaved("negative", yInd, xInd)
            /\ free' = Mark(free, yInd, xInd)
            /\ negativeCount' = negativeCount + 1
       ELSE UNCHANGED <<saved, free, negativeCount>>
    /\ attemptCount' = attemptCount + 1
    /\ pc' = IF attemptCount + 1 >= AttemptFactor * indices THEN "done" ELSE "negative"
    /\ UNCHANGED <<date, fault, buffer, shape, nx, ny, indices, pointsDone>>

\* One iteration of the while loop with the draw (yInd, xInd).
NegativeDraw(yInd, xInd) ==
    /\ pc = "negative"
    /\ negativeCount < indices
    /\ CanDraw
    /\ IF IsFree(free, yInd, xInd)
       THEN /\ saved' = saved \cup CropSaved("negative", yInd, xInd)
            /\ free' = Mark(free, yInd, xInd)
            /\ negativeCount' = negativeCount + 1
       ELSE UNCHANGED <<saved, free, negativeCount>>
    /\ attemptCount' = attemptCount + 1
    /\ pc' = IF attemptCount + 1 > AttemptFactor * indices THEN "done" ELSE "negative"
    /\ UNCHANGED <<date, fault, buffer, shape, nx, ny, indices, pointsDone>>

\* np.random.randint(buffer, nx-buffer), np.random.randint(buffer, ny-buffer)
DrawX == buffer..(nx - buffer - 1)
DrawY == buffer..(ny - buffer - 1)

Negative == \E xInd \in DrawX, yInd \in DrawY : NegativeDraw(yInd, xInd)

\* crop_image raises while persisting an accepted negative crop.
NegativeSinkFail ==
    /\ pc = "negative"
    /\ negativeCount < indices
    /\ CanDraw
    /\ \E xInd \in DrawX, yInd \in DrawY :
        IsFree(free, yInd, xInd) /\ CropCells(yInd, xInd) # {}
    /\ pc' = "error"
    /\ fault' = "SinkError"
    /\ UNCHANGED <<date, buffer, shape, nx, ny, free, indices, pointsDone,
                   negativeCount, attemptCount, saved>>

\* np.random.randint raises ValueError when the interval is empty.
DrawFault ==
    /\ pc = "negative"
    /\ negativeCount < indices
    /\ ~CanDraw
    /\ pc' = "error"
    /\ fault' = "ValueError"
    /\ UNCHANGED <<date, buffer, shape, nx, ny, free, indices, pointsDone,
                   negativeCount, attemptCount, saved>>

\* The while condition is false: del(ds).
LoopExit ==
    /\ pc = "negative"
    /\ negativeCount >= indices
    /\ pc' = "done"
    /\ UNCHANGED <<date, fault, buffer, shape, nx, ny, free, indices, pointsDone,
                   negativeCount, attemptCount, saved>>

\* Mutant of NextDate: without the try/except an exception ends the whole run.
NextDateAbortOnError ==
    /\ pc \in {"done", "error"}
    /\ date' = IF pc = "error" THEN date ELSE date + 1
    /\ pc' = IF pc = "error" \/ date + 1 > NumDates THEN "finished" ELSE "fetch"
    /\ fault' = "none"
    /\ shape' = <<0, 0>>
    /\ nx' = 0
    /\ ny' = 0
    /\ free' = {}
    /\ indices' = 0
    /\ pointsDone' = 0
    /\ negativeCount' = 0
    /\ attemptCount' = 0
    /\ saved' = {}
    /\ UNCHANGED buffer

\* Next iteration of the loop over the dates.
NextDate ==
    /\ pc \in {"done", "error"}
    /\ date' = date + 1
    /\ pc' = IF date + 1 > NumDates THEN "finished" ELSE "fetch"
    /\ fault' = "none"
    /\ shape' = <<0, 0>>
    /\ nx' = 0
    /\ ny' = 0
    /\ free' = {}
    /\ indices' = 0
    /\ pointsDone' = 0
    /\ negativeCount' = 0
    /\ attemptCount' = 0
    /\ saved' = {}
    /\ UNCHANGED buffer

Next ==
    \/ Fetch
    \/ FetchFail
    \/ Positive
    \/ PositiveSinkFail
    \/ BeginNegative
    \/ Negative
    \/ NegativeSinkFail
    \/ DrawFault
    \/ LoopExit
    \/ NextDate

Spec == Init /\ [][Next]_vars

\* The program runs one statement after the other until the loop over the
\* dates is exhausted: no step that is possible is postponed forever.
FairSpec == Spec /\ WF_vars(Next)

\* ------------------------------------------------- vocabulary of the claims
\* the pixels of the raster
RasterCells == (0..(shape[1] - 1)) \X (0..(shape[2] - 1))

\* the (2*buffer) x (2*buffer) window centred on (row, col), not clipped
Window(row, col) ==
    ((row - buffer)..(row + buffer - 1)) \X ((col - buffer)..(col + buffer - 1))

\* the window clipped to [0, ny) x [0, nx) of the raster
ClippedWindow(row, col) == Window(row, col) \cap RasterCells

\* the cells of the occupancy array that are marked (hold 0)
Occupied == NewMask(ny, nx) \ free

\* the raster cells of a persisted crop
Footprint(s) == CropCells(s.yInd, s.xInd)

Negatives == { s \in saved : s.kind = "negative" }
Positives == { s \in saved : s.kind = "positive" }

\* ------------------------------------------------------------------ C1
\* C1: within one raster no persisted negative crop shares a cell with a
\* positive crop or with another negative crop.
C1_NoOverlap ==
    \A n \in Negatives : \A s \in saved \ {n} : Footprint(n) \cap Footprint(s) = {}

\* a positive crop and two negative crops have been taken from one raster
C1_Witness ==
    /\ Positives # {}
    /\ \E n1, n2 \in Negatives : n1 # n2 /\ Footprint(n1) # {} /\ Footprint(n2) # {}

\* ------------------------------------------------------------------ C2
\* C2: the negative loop never makes more than 5*N draws, N the number of
\* track points of the timestamp.
C2_AtMostFiveNDraws == attemptCount <= AttemptFactor * indices

\* ------------------------------------------------------------------ C3
\* C3: for every centre inside the raster crop_image cuts exactly the window
\* clipped to the raster, and drops the crop only when that set is empty.
C3_CropIsClippedWindow ==
    \A c \in RasterCells :
        /\ CropCells(c[1], c[2]) = ClippedWindow(c[1], c[2])
        /\ (CropSaved("positive", c[1], c[2]) = {}) <=> (ClippedWindow(c[1], c[2]) = {})

\* ------------------------------------------------------------------ C4
\* C4: the marked cells of the occupancy array are exactly the union of the
\* footprints of the crops taken so far from the raster.
C4_MarkedIsUnionOfFootprints == Occupied = UNION { Footprint(s) : s \in saved }

\* ------------------------------------------------------------------ C5
\* C5: once the positive phase is over the sampler reaches Done, and the
\* negative loop is left only because the target is reached or the attempt
\* budget is exceeded, never through a fault.
C5_TwoExitsOnly ==
    /\ (pc = "negative") ~> (pc = "done")
    /\ [][ (pc = "negative" /\ pc' # "negative")
            => /\ pc' = "done"
               /\ \/ negativeCount' >= indices'
                  \/ attemptCount' > AttemptFactor * indices' ]_vars

\* ------------------------------------------------------------------ C6
\* C6: a draw is accepted iff every cell of its window, clipped to the
\* raster, is unmarked when the draw is made.
C6_AcceptedIffWindowUnmarked ==
    [][ \A yInd \in DrawY, xInd \in DrawX :
            NegativeDraw(yInd, xInd)
                => ( (negativeCount' = negativeCount + 1)
                       <=> (ClippedWindow(yInd, xInd) \cap Occupied = {}) ) ]_vars

\* ------------------------------------------------------------------ C7
\* C7: for every centre inside the raster the window is not free right after
\* it was marked, and marking it twice equals marking it once.
C7_MarkThenNotFree ==
    \A c \in RasterCells :
        /\ ~IsFree(Mark(free, c[1], c[2]), c[1], c[2])
        /\ Mark(Mark(free, c[1], c[2]), c[1], c[2]) = Mark(free, c[1], c[2])

\* ------------------------------------------------------------------ C8
\* C8: when the fetch of a timestamp fails nothing is persisted for it, the
\* loop goes on with the next timestamp, and the run ends only after the
\* last timestamp.
C8_FetchFailureIsolated ==
    [][ /\ (fault' = "RetrievalError") => (saved' = {} /\ pc' = "error")
        /\ (pc = "error")
              => /\ date' = date + 1
                 /\ pc' = IF date < NumDates THEN "fetch" ELSE "finished"
        /\ (pc' = "finished") => (date' = NumDates + 1) ]_vars

\* the fetch of a timestamp that is not the last one has failed
C8_Witness == pc = "error" /\ fault = "RetrievalError" /\ date < NumDates

C10_DrawInsideRaster ==
    [][ \A yInd \in DrawY, xInd \in DrawX :
            NegativeDraw(yInd, xInd)
                => /\ Window(yInd, xInd) \subseteq RasterCells
                   /\ (negativeCount' = negativeCount + 1)
                         => /\ CropCells(yInd, xInd) = Window(yInd, xInd)
                            /\ Cardinality(CropCells(yInd, xInd))
                                 = (2 * buffer) * (2 * buffer) ]_vars

\* ------------------------------------------------------------------ C11
\* C11: the occupancy array created for a raster has the raster's shape (as
\* many rows and as many columns), so both are indexed by the same pixels.
C11_MaskHasRasterShape ==
    pc \in {"positive", "negative", "done"}
        => /\ <<ny, nx>> = shape
           /\ NewMask(ny, nx) = RasterCells

\* ------------------------------------------------------------------ C12
\* C12 as claimed: a failure of the sink costs only the sample: the phase
\* the failure happened in goes on (the next track point is handled, the
\* negative loop keeps drawing).
C12_SinkFailureSkipsSampleOnly ==
    [][ (fault' = "SinkError" /\ fault = "none")
            => /\ pc' = pc
               /\ (pc = "positive") => (pointsDone' = pointsDone + 1) ]_vars

\* C12 as amended: a failure of the sink ends the timestamp: nothing more is
\* persisted or marked for it, its remaining track points and its negative
\* phase are skipped, and the loop goes on with the next timestamp.
C12_SinkFailureEndsTimestamp ==
    [][ /\ (fault' = "SinkError" /\ fault = "none")
            => /\ pc' = "error"
               /\ date' = date
               /\ UNCHANGED <<saved, free, pointsDone, negativeCount, attemptCount>>
        /\ (fault = "SinkError")
            => /\ pc = "error"
               /\ date' = date + 1
               /\ pc' = IF date < NumDates THEN "fetch" ELSE "finished"
               /\ saved' = {} ]_vars

\* the sink has failed on a track point that is not the last one of a
\* timestamp that is not the last one
C12_Witness ==
    /\ pc = "error"
    /\ fault = "SinkError"
    /\ pointsDone + 1 < indices
    /\ date < NumDates

\* ------------------------------------------------------------------ C13
\* C13: the track points of a timestamp are handled one after the other and
\* all of them before the first negative draw; a handled track point leaves
\* the loop in the positive phase and no crop of zero area is ever persisted;
\* the next timestamp starts only when the negative phase has ended.
C13_PhaseOrder ==
    [][ /\ (attemptCount' > 0 \/ pc' \in {"negative", "done"})
            => pointsDone' = indices'
        /\ (pointsDone' # pointsDone)
            => \/ pc = "positive" /\ pc' = "positive" /\ pointsDone' = pointsDone + 1
               \/ date' = date + 1 /\ pointsDone' = 0
        /\ (date' = date) => \A s \in saved' \ saved : Footprint(s) # {}
        /\ (date' # date)
            => pc \in {"done", "error"} /\ pc' \in {"fetch", "finished"}
        /\ (pc' = "positive" /\ pc # "positive")
            => pc = "fetch" /\ pointsDone' = 0 /\ attemptCount' = 0 ]_vars

\* in the second timestamp two or more track points, all with zero-area
\* crops, have been handled and negative draws have been made
C13_Witness ==
    /\ date > 1
    /\ pc = "negative"
    /\ indices > 1
    /\ pointsDone = indices
    /\ Positives = {}
    /\ attemptCount > 0

\* ------------------------------------------------------------------ C14
\* the distance of a planar value to the pixels of the two axes
DistX(k, v) == Abs(XAxis(k) - v)
DistY(k, v) == Abs(YAxis(k) - v)

\* C14: for every planar value the located column (row) is an index of the
\* axis whose distance to the value is minimal, and the smallest such index;
\* every persisted positive crop is centred on a pixel of the raster.
C14_LocateNearestFirst ==
    /\ pc = "positive"
        => /\ \A v \in PlanarX :
                LET i == LocateX(v)
                IN  /\ i \in 0..(shape[2] - 1)
                    /\ \A j \in 0..(shape[2] - 1) :
                          /\ DistX(i, v) <= DistX(j, v)
                          /\ (j < i) => (DistX(j, v) > DistX(i, v))
           /\ \A v \in PlanarY :
                LET i == LocateY(v)
                IN  /\ i \in 0..(shape[1] - 1)
                    /\ \A j \in 0..(shape[1] - 1) :
                          /\ DistY(i, v) <= DistY(j, v)
                          /\ (j < i) => (DistY(j, v) > DistY(i, v))
    /\ \A s \in Positives : <<s.yInd, s.xInd>> \in RasterCells

\* a positive crop has been persisted for a track point whose planar x lies
\* midway between two columns
C14_Witness ==
    /\ pc = "positive"
    /\ \E v \in PlanarX, w \in PlanarY :
        /\ \E i, j \in 0..(shape[2] - 1) :
              /\ i # j
              /\ DistX(i, v) = DistX(j, v)
              /\ \A k \in 0..(shape[2] - 1) : DistX(i, v) <= DistX(k, v)
        /\ [kind |-> "positive", yInd |-> LocateY(w), xInd |-> LocateX(v)] \in saved

\* ------------------------------------------------------------------ C15
\* C15: when the positive phase of a timestamp starts, every cell of the
\* occupancy array is free and nothing is recorded for the raster yet,
\* whatever the earlier timestamps did.
C15_FreshMaskPerRaster ==
    (pc = "positive" /\ pointsDone = 0)
        => /\ free = (0..(ny - 1)) \X (0..(nx - 1))
           /\ free # {}
           /\ saved = {}

\* the positive phase of a later timestamp is about to start
C15_Witness == date > 1 /\ pc = "positive" /\ pointsDone = 0

\* ------------------------------------------------------------------ C16
\* C16: in the negative phase the accepted counter equals the number of
\* negative crops persisted for the raster.
C16_CountEqualsSaved ==
    pc \in {"negative", "done"} => negativeCount = Cardinality(Negatives)

\* ------------------------------------------------------------------ C17
\* C17: a crop is never persisted under a naming key (category, column, row;
\* timestamp and buffer are those of the raster) that a crop persisted
\* earlier already has.
C17_NoKeyWrittenTwice ==
    [][ /\ (pc = "positive" /\ pointsDone' # pointsDone)
            => \A trackX \in PlanarX, trackY \in PlanarY :
                  (PositivePoint(trackX, trackY)
                     /\ CropSaved("positive", LocateY(trackY), LocateX(trackX)) # {})
                     => CropSaved("positive", LocateY(trackY), LocateX(trackX))
                            \cap saved = {}
        /\ (pc = "negative" /\ negativeCount' # negativeCount)
            => \A yInd \in DrawY, xInd \in DrawX :
                  (NegativeDraw(yInd, xInd) /\ CropSaved("negative", yInd, xInd) # {})
                     => CropSaved("negative", yInd, xInd) \cap saved = {} ]_vars

\* ------------------------------------------------------------------ C18
\* C18: while a raster is processed no marked cell becomes free again; a
\* draw costs one attempt, and a draw that is not accepted changes neither
\* the occupancy array nor the persisted crops; an accepted draw marks cells.
C18_MaskOnlyGrows ==
    [][ /\ (pc \in {"positive", "negative"}) => (free' \subseteq free)
        /\ (pc = "negative" /\ pc' \in {"negative", "done"}
              /\ attemptCount' # attemptCount)
            => /\ attemptCount' = attemptCount + 1
               /\ (negativeCount' = negativeCount)
                     => (free' = free /\ saved' = saved)
               /\ (negativeCount' # negativeCount)
                     => (negativeCount' = negativeCount + 1 /\ free' # free) ]_vars

\* after a positive and a negative crop were taken a draw has been rejected
C18_Witness ==
    /\ pc = "negative"
    /\ Positives # {}
    /\ negativeCount > 0
    /\ attemptCount > negativeCount

====
